---- MODULE Spec2Model ----
(***************************************************************************)
(* Model of the school-records server (src/server.ts): five SQLite tables, *)
(* the cookie-based session lookup and the nine /api routes.  One browser  *)
(* client holds the cookie jar; every action is one request/response round *)
(* trip, the handler running to completion (better-sqlite3 is synchronous).*)
(*                                                                         *)
(* Text values that the code parses, converts or compares (the :id route   *)
(* parameter, the cookie value, the date column) are sequences of          *)
(* characters, so that parseInt, SQLite's numeric affinity, String() and   *)
(* the TEXT collation are modelled by what they compute.                   *)
(***************************************************************************)
EXTENDS Integers, Sequences, FiniteSets, TLC

\* SQL NULL / JS null in an integer position (AUTOINCREMENT ids start at 1).
NULL == 0
\* parseInt's NaN: strictly unequal to every number.
NaN == -1
\* A text operand that NUMERIC affinity leaves as TEXT: equal to no integer.
NotNumeric == -2
\* JS null in a text position (a body field that is null or missing).
NoText == <<-1>>

\* Bound on the total number of rows inserted into the three record tables.
MaxRows == 2

(***************************************************************************)
(* Text helpers                                                            *)
(***************************************************************************)
DigitChars == <<"0", "1", "2", "3", "4", "5", "6", "7", "8", "9">>

IsDigit(c) == \E i \in 1..Len(DigitChars) : DigitChars[i] = c

DigitVal(c) == (CHOOSE i \in 1..Len(DigitChars) : DigitChars[i] = c) - 1

RECURSIVE DecVal(_)
DecVal(ds) ==
    IF ds = <<>> THEN 0
    ELSE DecVal(SubSeq(ds, 1, Len(ds) - 1)) * 10 + DigitVal(ds[Len(ds)])

RECURSIVE LeadingDigits(_)
LeadingDigits(s) ==
    IF s = <<>> \/ ~IsDigit(Head(s)) THEN <<>>
    ELSE <<Head(s)>> \o LeadingDigits(Tail(s))

\* JS parseInt(s) without radix, for texts of digits and letters: the value
\* of the longest prefix of decimal digits, NaN when there is none.
ParseInt(s) ==
    LET ds == LeadingDigits(s)
    IN  IF ds = <<>> THEN NaN ELSE DecVal(ds)

AllDigits(s) == s # <<>> /\ \A i \in 1..Len(s) : IsDigit(s[i])

ExpAt(s, k) ==
    /\ s[k] = "e"
    /\ AllDigits(SubSeq(s, 1, k - 1))
    /\ AllDigits(SubSeq(s, k + 1, Len(s)))

\* SQLite NUMERIC affinity applied to a bound TEXT parameter that is compared
\* with an INTEGER column: a well-formed integer or real literal becomes its
\* (integer) value, any other text stays TEXT.
ToNumeric(s) ==
    IF AllDigits(s) THEN DecVal(s)
    ELSE IF \E k \in 1..Len(s) : ExpAt(s, k)
         THEN LET k == CHOOSE j \in 1..Len(s) : ExpAt(s, j)
              IN  DecVal(SubSeq(s, 1, k - 1)) * (10 ^ DecVal(SubSeq(s, k + 1, Len(s))))
         ELSE NotNumeric

\* JS String(n) of a positive integer, as res.cookie() serialises the value.
RECURSIVE NumToStr(_)
NumToStr(n) ==
    IF n < 10 THEN <<DigitChars[n + 1]>>
    ELSE NumToStr(n \div 10) \o <<DigitChars[(n % 10) + 1]>>

\* BINARY collation of two TEXT values (memcmp, then length).
RECURSIVE TextLess(_, _)
TextLess(a, b) ==
    IF b = <<>> THEN FALSE
    ELSE IF a = <<>> THEN TRUE
    ELSE IF Head(a) # Head(b) THEN Head(a) < Head(b)
    ELSE TextLess(Tail(a), Tail(b))

(***************************************************************************)
(* Seed data and request inputs                                            *)
(***************************************************************************)
SeedStudents ==
    << [id |-> 1, name |-> "Ahmad Fauzi",  class |-> "10-A"],
       [id |-> 2, name |-> "Siti Aminah",  class |-> "10-A"],
       [id |-> 3, name |-> "Budi Pratama", class |-> "10-B"],
       [id |-> 4, name |-> "Dewi Lestari", class |-> "11-A"] >>

SeedUsers ==
    << [id |-> 1, username |-> "guru",  password |-> "guru123",  role |-> "teacher", student_id |-> NULL],
       [id |-> 2, username |-> "ahmad", password |-> "siswa123", role |-> "student", student_id |-> 1],
       [id |-> 3, username |-> "siti",  password |-> "siswa123", role |-> "student", student_id |-> 2] >>

NoUser == [id |-> NULL, username |-> "", password |-> "", role |-> "", student_id |-> NULL]
NoPublicUser == [id |-> NULL, username |-> "", role |-> "", student_id |-> NULL]
NoStudent == [id |-> NULL, name |-> "", class |-> ""]

\* Inputs of the requests.
Usernames == {"guru", "ahmad", "siti", "Guru"}
Passwords == {"guru123", "siswa123", "salah"}
\* :id route parameters: plain ids, an id of no student, a zero-padded id,
\* digits followed by a letter, an exponent literal, no digits at all.
IdParams ==
    { <<"1">>, <<"2">>, <<"3">>, <<"9">>, <<"0", "1">>,
      <<"1", "a">>, <<"1", "e", "1">>, <<"a">> }
\* Dates are the digits of their characters: "10" < "9" as TEXT.
\* The server's current day.
Days == { <<1, 0>>, <<9>> }
StatusOrder == <<"absent", "late", "present", "sick">>
\* Request bodies: rows for students 1 and 2, a null student_id, the id of no
\* student (9), a null date.
AttendanceBodies ==
    { [student_id |-> 1,    date |-> <<1, 0>>, status |-> "present"],
      [student_id |-> 1,    date |-> <<9>>,    status |-> "sick"],
      [student_id |-> 2,    date |-> <<1, 0>>, status |-> "present"],
      [student_id |-> NULL, date |-> <<9>>,    status |-> "present"],
      [student_id |-> 9,    date |-> <<9>>,    status |-> "present"],
      [student_id |-> 1,    date |-> NoText,   status |-> "present"] }
GradeBodies ==
    { [student_id |-> 1, subject |-> "Matematika", score |-> 80, date |-> <<1, 0>>],
      [student_id |-> 1, subject |-> "Matematika", score |-> 80, date |-> <<9>>],
      [student_id |-> 2, subject |-> "Matematika", score |-> 80, date |-> <<9>>],
      [student_id |-> 9, subject |-> "Matematika", score |-> 80, date |-> <<9>>] }
BehaviorBodies ==
    { [student_id |-> 1, type |-> "positive", description |-> "Membantu teman", date |-> <<1, 0>>],
      [student_id |-> 1, type |-> "negative", description |-> "Terlambat", date |-> <<9>>],
      [student_id |-> 2, type |-> "positive", description |-> "Membantu teman", date |-> <<9>>],
      [student_id |-> 1, type |-> "positive", description |-> "Membantu teman", date |-> NoText] }

\* userId cookie values that a client may send without having been given
\* them: none, the ids of the users, the id of no user, texts that are no id.
CookieValues ==
    { <<>>, <<"1">>, <<"2">>, <<"3">>, <<"9">>, <<"a">>, <<"1", "a">> }

VARIABLES
    users,        \* table users
    students,     \* table students
    attendance,   \* table attendance, in rowid order
    grades,       \* table grades, in rowid order
    behavior,     \* table behavior, in rowid order
    cookie,       \* the browser's userId cookie (<<>> when absent)
    loggedInAs,   \* history: user id of the last successful login not yet followed by a logout
    req,          \* the last request
    res,          \* its response
    handlers,     \* per connection: the request received and its handler's position
    thread,       \* the connection whose handler holds the JavaScript thread
    snapshot,     \* history: the record tables as they were when the last answered handler started
    app,          \* the App component's state (src/src/App.tsx)
    inflight,     \* the component's fetches whose continuation has not run yet
    detailOrigin  \* history: what started the fetch that last set studentDetail

loopVars == <<handlers, thread, snapshot>>
clientVars == <<app, inflight, detailOrigin>>
vars == <<users, students, attendance, grades, behavior, cookie, loggedInAs, req, res,
          loopVars, clientVars>>
tables == <<users, students, attendance, grades, behavior>>

\* Connections of concurrent clients.
Clients == {"c1", "c2"}
NoClient == "none"

NoSnapshot == [attendance |-> <<>>, grades |-> <<>>, behavior |-> <<>>, overlapped |-> FALSE]

NoReq ==
    [op |-> "none", id |-> <<>>, username |-> "", password |-> "",
     student_id |-> NULL, date |-> <<>>, status |-> "", subject |-> "",
     score |-> 0, type |-> "", description |-> "", today |-> <<>>]

NoRes ==
    [status |-> 0, body |-> "none", message |-> "", success |-> "absent",
     user |-> NoPublicUser, students |-> <<>>, student |-> NoStudent,
     attendance |-> <<>>, grades |-> <<>>, behavior |-> <<>>,
     totalStudents |-> 0, attendanceToday |-> <<>>,
     setCookie |-> "none", cookieValue |-> <<>>]

\* studentDetail and stats before any response set them (null in the component).
NoDetail ==
    [loaded |-> FALSE, id |-> NULL, name |-> "", class |-> "",
     attendance |-> <<>>, grades |-> <<>>, behavior |-> <<>>]
NoStats == [loaded |-> FALSE, totalStudents |-> 0, attendanceToday |-> <<>>]

\* A fetch of the component: the request with the cookie the browser sent, the
\* responses it still awaits and the responses received.
Fetch(kind, ck) ==
    [kind |-> kind, cookie |-> ck, id |-> NULL, username |-> "", password |-> "",
     origin |-> "none",
     awaiting |-> IF kind = "teacherData" THEN {"students", "stats"} ELSE {kind},
     res |-> NoRes, statsRes |-> NoRes]

\* The component as mounted: the useState defaults, checkAuth started.
Mounted ==
    [user |-> NoPublicUser, activeTab |-> "dashboard", students |-> <<>>,
     selectedStudentId |-> NULL, studentDetail |-> NoDetail, stats |-> NoStats,
     loading |-> TRUE]

Idle ==
    [pc |-> "idle", req |-> NoReq, cookie |-> <<>>, user |-> NoUser, res |-> NoRes,
     snap |-> NoSnapshot]

Init ==
    /\ users = SeedUsers
    /\ students = SeedStudents
    /\ attendance = <<>>
    /\ grades = <<>>
    /\ behavior = <<>>
    /\ cookie = <<>>
    /\ loggedInAs = NULL
    /\ req = NoReq
    /\ res = NoRes
    /\ handlers = [c \in Clients |-> Idle]
    /\ thread = NoClient
    /\ snapshot = NoSnapshot
    /\ app = Mounted
    /\ inflight = <<Fetch("me", <<>>)>>
    /\ detailOrigin = "none"

(***************************************************************************)
(* Store access                                                            *)
(***************************************************************************)
\* Faulty variant of UserById: the lookup compares the student_id column.
UserByStudentId(userId) ==
    LET n == ToNumeric(userId)
    IN  IF \E i \in 1..Len(users) : users[i].student_id = n
        THEN users[CHOOSE i \in 1..Len(users) : users[i].student_id = n]
        ELSE NoUser

\* db.prepare("SELECT * FROM users WHERE id = ?").get(userId)
UserById(userId) ==
    LET n == ToNumeric(userId)
    IN  IF \E i \in 1..Len(users) : users[i].id = n
        THEN users[CHOOSE i \in 1..Len(users) : users[i].id = n]
        ELSE NoUser

\* Faulty variant of getSessionUser: only a client that has logged in and not
\* logged out is resolved (as a server-side session record would do).
getSessionUserIfLoggedIn(ck) ==
    IF ck = <<>> \/ loggedInAs = NULL THEN NoUser ELSE UserById(ck)

\* Faulty variant of getSessionUser: the cookie is parsed with parseInt first.
getSessionUserParsed(ck) ==
    IF ck = <<>> THEN NoUser
    ELSE IF \E i \in 1..Len(users) : users[i].id = ParseInt(ck)
         THEN users[CHOOSE i \in 1..Len(users) : users[i].id = ParseInt(ck)]
         ELSE NoUser

getSessionUser(ck) ==
    IF ck = <<>> THEN NoUser ELSE UserById(ck)

\* Faulty variant of UserByCredentials: the password is not compared.
UserByUsername(username, password) ==
    IF \E i \in 1..Len(users) : users[i].username = username
    THEN users[CHOOSE i \in 1..Len(users) : users[i].username = username]
    ELSE NoUser

\* SELECT * FROM users WHERE username = ? AND password = ?
UserByCredentials(username, password) ==
    LET hit(i) == users[i].username = username /\ users[i].password = password
    IN  IF \E i \in 1..Len(users) : hit(i)
        THEN users[CHOOSE i \in 1..Len(users) : hit(i)]
        ELSE NoUser

PublicUser(u) ==
    [id |-> u.id, username |-> u.username, role |-> u.role, student_id |-> u.student_id]

\* SELECT * FROM students WHERE id = ?
StudentById(idText) ==
    LET n == ToNumeric(idText)
    IN  IF \E i \in 1..Len(students) : students[i].id = n
        THEN students[CHOOSE i \in 1..Len(students) : students[i].id = n]
        ELSE NoStudent

\* Faulty variant of InsertDesc: ascending order.
RECURSIVE InsertAsc(_, _)
InsertAsc(r, sorted) ==
    IF sorted = <<>> THEN <<r>>
    ELSE IF TextLess(r.date, Head(sorted).date) THEN <<r>> \o sorted
    ELSE <<Head(sorted)>> \o InsertAsc(r, Tail(sorted))

RECURSIVE InsertDesc(_, _)
InsertDesc(r, sorted) ==
    IF sorted = <<>> THEN <<r>>
    ELSE IF TextLess(Head(sorted).date, r.date) THEN <<r>> \o sorted
    ELSE <<Head(sorted)>> \o InsertDesc(r, Tail(sorted))

\* ORDER BY date DESC over rows given in rowid order (ties keep rowid order).
RECURSIVE OrderByDateDesc(_)
OrderByDateDesc(rows) ==
    IF rows = <<>> THEN <<>>
    ELSE InsertDesc(rows[Len(rows)], OrderByDateDesc(SubSeq(rows, 1, Len(rows) - 1)))

\* Faulty variant of MatchesStudent: the query compares the row's own id.
MatchesRowId(row, idText) ==
    row.id = ToNumeric(idText)

\* WHERE student_id = ? (a NULL student_id equals nothing)
MatchesStudent(row, idText) ==
    row.student_id # NULL /\ row.student_id = ToNumeric(idText)

\* Faulty variant of RowsOfStudent: the WHERE clause is missing.
RowsOfAllStudents(table, idText) ==
    OrderByDateDesc(table)

\* SELECT * FROM <table> WHERE student_id = ? ORDER BY date DESC
RowsOfStudent(table, idText) ==
    LET hit(row) == MatchesStudent(row, idText)
    IN  OrderByDateDesc(SelectSeq(table, hit))

\* FOREIGN KEY (student_id) REFERENCES students(id), enforced by better-sqlite3
ForeignKeyOk(student_id) ==
    student_id = NULL \/ \E i \in 1..Len(students) : students[i].id = student_id

TotalRows == Len(attendance) + Len(grades) + Len(behavior)

Forbidden == [NoRes EXCEPT !.status = 403, !.body = "message", !.message = "Forbidden"]
Unauthorized == [NoRes EXCEPT !.status = 401, !.body = "message", !.message = "Unauthorized"]
\* An exception thrown by the handler: Express's default error handler.
InternalError == [NoRes EXCEPT !.status = 500, !.body = "error"]
Success == [NoRes EXCEPT !.status = 200, !.body = "success", !.success = "true"]

\* Faulty variant of IsTeacher: the role is not compared.
IsLoggedIn(user) == user # NoUser

IsTeacher(user) == user # NoUser /\ user.role = "teacher"

(***************************************************************************)
(* Routes                                                                  *)
(***************************************************************************)
Login(username, password) ==
    LET user == UserByCredentials(username, password)
    IN  /\ req' = [NoReq EXCEPT !.op = "login", !.username = username, !.password = password]
        /\ IF user # NoUser
           THEN /\ res' = [NoRes EXCEPT !.status = 200, !.body = "login", !.success = "true",
                                        !.user = PublicUser(user),
                                        !.setCookie = "set", !.cookieValue = NumToStr(user.id)]
                /\ cookie' = NumToStr(user.id)
                /\ loggedInAs' = user.id
           ELSE /\ res' = [NoRes EXCEPT !.status = 401, !.body = "login", !.success = "false",
                                        !.message = "Username atau password salah"]
                /\ UNCHANGED <<cookie, loggedInAs>>
        /\ UNCHANGED tables
        /\ UNCHANGED <<loopVars, clientVars>>

\* Faulty variant of Logout: the userId cookie is not cleared.
LogoutKeepsCookie ==
    /\ req' = [NoReq EXCEPT !.op = "logout"]
    /\ res' = [NoRes EXCEPT !.status = 200, !.body = "success", !.success = "true"]
    /\ loggedInAs' = NULL
    /\ UNCHANGED <<tables, cookie>>
    /\ UNCHANGED <<loopVars, clientVars>>

Logout ==
    /\ req' = [NoReq EXCEPT !.op = "logout"]
    /\ res' = [Success EXCEPT !.setCookie = "clear"]
    /\ cookie' = <<>>
    /\ loggedInAs' = NULL
    /\ UNCHANGED tables
    /\ UNCHANGED <<loopVars, clientVars>>

MeResponse(user) ==
    IF user # NoUser
    THEN [NoRes EXCEPT !.status = 200, !.body = "user", !.user = PublicUser(user)]
    ELSE [NoRes EXCEPT !.status = 401, !.body = "message", !.message = "Not authenticated"]

Me ==
    /\ req' = [NoReq EXCEPT !.op = "me"]
    /\ res' = MeResponse(getSessionUser(cookie))
    /\ UNCHANGED <<tables, cookie, loggedInAs>>
    /\ UNCHANGED <<loopVars, clientVars>>

\* Faulty variant of ListStudents: any logged-in user passes the gate.
ListStudentsAnyUser ==
    LET user == getSessionUser(cookie)
    IN  /\ req' = [NoReq EXCEPT !.op = "students"]
        /\ res' = IF user = NoUser
                  THEN [NoRes EXCEPT !.status = 403, !.body = "message", !.message = "Forbidden"]
                  ELSE [NoRes EXCEPT !.status = 200, !.body = "students", !.students = students]
        /\ UNCHANGED <<tables, cookie, loggedInAs>>
        /\ UNCHANGED <<loopVars, clientVars>>

ListStudents ==
    LET user == getSessionUser(cookie)
    IN  /\ req' = [NoReq EXCEPT !.op = "students"]
        /\ res' = IF ~IsTeacher(user)
                  THEN Forbidden
                  ELSE [NoRes EXCEPT !.status = 200, !.body = "students", !.students = students]
        /\ UNCHANGED <<tables, cookie, loggedInAs>>
        /\ UNCHANGED <<loopVars, clientVars>>

\* Faulty variant of StudentDetailResponse: the gate compares the user's id.
StudentDetailResponseByUserId(user, id) ==
    IF user = NoUser THEN Unauthorized
    ELSE IF user.role = "student" /\ user.id # ParseInt(id) THEN Forbidden
    ELSE [NoRes EXCEPT !.status = 200, !.body = "detail",
                       !.student = StudentById(id),
                       !.attendance = RowsOfStudent(attendance, id),
                       !.grades = RowsOfStudent(grades, id),
                       !.behavior = RowsOfStudent(behavior, id)]

StudentDetailResponse(user, id) ==
    IF user = NoUser THEN Unauthorized
    ELSE IF user.role = "student" /\ user.student_id # ParseInt(id) THEN Forbidden
    ELSE [NoRes EXCEPT !.status = 200, !.body = "detail",
                       !.student = StudentById(id),
                       !.attendance = RowsOfStudent(attendance, id),
                       !.grades = RowsOfStudent(grades, id),
                       !.behavior = RowsOfStudent(behavior, id)]

StudentDetail(id) ==
    /\ req' = [NoReq EXCEPT !.op = "detail", !.id = id]
    /\ res' = StudentDetailResponse(getSessionUser(cookie), id)
    /\ UNCHANGED <<tables, cookie, loggedInAs>>
    /\ UNCHANGED <<loopVars, clientVars>>

AddAttendance(student_id, date, status) ==
    LET user == getSessionUser(cookie)
        row  == [id |-> Len(attendance) + 1, student_id |-> student_id,
                 date |-> date, status |-> status]
    IN  /\ req' = [NoReq EXCEPT !.op = "attendance", !.student_id = student_id,
                                !.date = date, !.status = status]
        /\ IF ~IsTeacher(user)
           THEN res' = Forbidden /\ UNCHANGED attendance
           ELSE IF date = NoText \/ ~ForeignKeyOk(student_id)
           THEN res' = InternalError /\ UNCHANGED attendance
           ELSE /\ TotalRows < MaxRows
                /\ attendance' = Append(attendance, row)
                /\ res' = Success
        /\ UNCHANGED <<users, students, grades, behavior, cookie, loggedInAs>>
        /\ UNCHANGED <<loopVars, clientVars>>

\* Faulty variant of AddGrade: the statement inserts into attendance.
AddGradeIntoAttendance(student_id, subject, score, date) ==
    LET user == getSessionUser(cookie)
        row  == [id |-> Len(attendance) + 1, student_id |-> student_id,
                 date |-> date, status |-> subject]
    IN  /\ req' = [NoReq EXCEPT !.op = "grades", !.student_id = student_id,
                                !.subject = subject, !.score = score, !.date = date]
        /\ IF ~IsTeacher(user)
           THEN res' = Forbidden /\ UNCHANGED attendance
           ELSE IF date = NoText \/ ~ForeignKeyOk(student_id)
           THEN res' = InternalError /\ UNCHANGED attendance
           ELSE /\ TotalRows < MaxRows
                /\ attendance' = Append(attendance, row)
                /\ res' = Success
        /\ UNCHANGED <<users, students, grades, behavior, cookie, loggedInAs>>
        /\ UNCHANGED <<loopVars, clientVars>>

AddGrade(student_id, subject, score, date) ==
    LET user == getSessionUser(cookie)
        row  == [id |-> Len(grades) + 1, student_id |-> student_id,
                 subject |-> subject, score |-> score, date |-> date]
    IN  /\ req' = [NoReq EXCEPT !.op = "grades", !.student_id = student_id,
                                !.subject = subject, !.score = score, !.date = date]
        /\ IF ~IsTeacher(user)
           THEN res' = Forbidden /\ UNCHANGED grades
           ELSE IF date = NoText \/ ~ForeignKeyOk(student_id)
           THEN res' = InternalError /\ UNCHANGED grades
           ELSE /\ TotalRows < MaxRows
                /\ grades' = Append(grades, row)
                /\ res' = Success
        /\ UNCHANGED <<users, students, attendance, behavior, cookie, loggedInAs>>
        /\ UNCHANGED <<loopVars, clientVars>>

AddBehavior(student_id, type, description, date) ==
    LET user == getSessionUser(cookie)
        row  == [id |-> Len(behavior) + 1, student_id |-> student_id,
                 type |-> type, description |-> description, date |-> date]
    IN  /\ req' = [NoReq EXCEPT !.op = "behavior", !.student_id = student_id,
                                !.type = type, !.description = description, !.date = date]
        /\ IF ~IsTeacher(user)
           THEN res' = Forbidden /\ UNCHANGED behavior
           ELSE IF date = NoText \/ ~ForeignKeyOk(student_id)
           THEN res' = InternalError /\ UNCHANGED behavior
           ELSE /\ TotalRows < MaxRows
                /\ behavior' = Append(behavior, row)
                /\ res' = Success
        /\ UNCHANGED <<users, students, attendance, grades, cookie, loggedInAs>>
        /\ UNCHANGED <<loopVars, clientVars>>

\* Faulty variant of AttendanceToday: the rows are not restricted to the day.
AttendanceAllDays(today) ==
    LET count(st) == Cardinality({i \in 1..Len(attendance) : attendance[i].status = st})
        present(st) == count(st) > 0
        pair(i) == [status |-> SelectSeq(StatusOrder, present)[i],
                    count |-> count(SelectSeq(StatusOrder, present)[i])]
    IN  [i \in 1..Len(SelectSeq(StatusOrder, present)) |-> pair(i)]

\* SELECT status, COUNT(*) as count FROM attendance WHERE date = ? GROUP BY status
AttendanceToday(today) ==
    LET count(st) == Cardinality({i \in 1..Len(attendance) :
                                    attendance[i].date = today /\ attendance[i].status = st})
        present(st) == count(st) > 0
        pair(i) == [status |-> SelectSeq(StatusOrder, present)[i],
                    count |-> count(SelectSeq(StatusOrder, present)[i])]
    IN  [i \in 1..Len(SelectSeq(StatusOrder, present)) |-> pair(i)]

StatsResponse(user, today) ==
    IF ~IsTeacher(user)
    THEN Forbidden
    ELSE [NoRes EXCEPT !.status = 200, !.body = "stats",
                       !.totalStudents = Len(students),
                       !.attendanceToday = AttendanceToday(today)]

Stats(today) ==
    /\ req' = [NoReq EXCEPT !.op = "stats", !.today = today]
    /\ res' = StatsResponse(getSessionUser(cookie), today)
    /\ UNCHANGED <<tables, cookie, loggedInAs>>
    /\ UNCHANGED <<loopVars, clientVars>>

Next ==
    \/ \E username \in Usernames, password \in Passwords : Login(username, password)
    \/ Logout
    \/ Me
    \/ ListStudents
    \/ \E id \in IdParams : StudentDetail(id)
    \/ \E b \in AttendanceBodies : AddAttendance(b.student_id, b.date, b.status)
    \/ \E b \in GradeBodies : AddGrade(b.student_id, b.subject, b.score, b.date)
    \/ \E b \in BehaviorBodies : AddBehavior(b.student_id, b.type, b.description, b.date)
    \/ \E today \in Days : Stats(today)

Spec == Init /\ [][Next]_vars

\* The request's Cookie header is chosen by the client: it may replace the
\* userId value by any other, whatever the server set before.  No request is
\* made by that, so no exchange is on record afterwards.
PresentCookie(ck) ==
    /\ cookie' = ck
    /\ req' = [NoReq EXCEPT !.op = "cookie"]
    /\ res' = NoRes
    /\ UNCHANGED <<tables, loggedInAs>>
    /\ UNCHANGED <<loopVars, clientVars>>

NextAnyCookie ==
    \/ \E username \in Usernames, password \in Passwords : Login(username, password)
    \/ Logout
    \/ Me
    \/ ListStudents
    \/ \E id \in IdParams : StudentDetail(id)
    \/ \E b \in AttendanceBodies : AddAttendance(b.student_id, b.date, b.status)
    \/ \E today \in Days : Stats(today)
    \/ \E ck \in CookieValues : PresentCookie(ck)

SpecAnyCookie == Init /\ [][NextAnyCookie]_vars

(***************************************************************************)
(* Concurrent clients on the server's event loop                           *)
(*                                                                         *)
(* Several connections have a request outstanding at once.  A request is   *)
(* received at any time; its handler then runs statement by statement: the *)
(* session lookup, each query, the insert, the response.  The handlers are *)
(* synchronous callbacks over a synchronous database driver (no await, no  *)
(* callback between two statements), so Node runs a started handler to its *)
(* response before it starts another: MayRun.                              *)
(***************************************************************************)
LoopCookies == {<<>>, <<"1">>, <<"2">>}

LoopRequests ==
    {[NoReq EXCEPT !.op = "detail", !.id = id] : id \in {<<"1">>, <<"2">>}}
    \cup {[NoReq EXCEPT !.op = "stats", !.today = <<1, 0>>]}
    \cup {[NoReq EXCEPT !.op = "attendance", !.student_id = n, !.date = <<1, 0>>,
                        !.status = "present"] : n \in {1, 9}}
    \cup {[NoReq EXCEPT !.op = "grades", !.student_id = 1, !.subject = "Matematika",
                        !.score = 80, !.date = <<1, 0>>]}

\* Faulty scheduling: a handler yields the thread between two statements.
MayRunPreempted(c) == TRUE

\* The handler of connection c may execute its next statement.
MayRun(c) == thread \in {NoClient, c}

\* Requests received whose insert has not yet been executed.
InsertsOutstanding ==
    Cardinality({c \in Clients : /\ handlers[c].pc \in {"received", "session", "insert"}
                                 /\ handlers[c].req.op \in {"attendance", "grades"}})

\* Connection c's handler has executed a statement and is now as h.
Ran(c, h) ==
    /\ handlers' = [handlers EXCEPT ![c] =
           [h EXCEPT !.snap.overlapped = @ \/ \E d \in Clients \ {c} : handlers[d].pc # "idle"]]
    /\ thread' = c

Receive(c, r, ck) ==
    /\ handlers[c].pc = "idle"
    /\ r.op \in {"attendance", "grades"} => TotalRows + InsertsOutstanding < MaxRows
    /\ handlers' = [handlers EXCEPT ![c] = [Idle EXCEPT !.pc = "received", !.req = r, !.cookie = ck]]
    /\ UNCHANGED <<tables, cookie, loggedInAs, req, res, thread, snapshot, clientVars>>

Start(c) ==
    /\ handlers[c].pc = "received"
    /\ MayRun(c)
    /\ Ran(c, [handlers[c] EXCEPT !.pc = "session",
                                  !.snap = [attendance |-> attendance, grades |-> grades,
                                            behavior |-> behavior, overlapped |-> FALSE]])
    /\ UNCHANGED <<tables, cookie, loggedInAs, req, res, snapshot, clientVars>>

ResolveSession(c) ==
    LET h    == handlers[c]
        user == getSessionUser(h.cookie)
        refusal ==
            CASE h.req.op = "detail" ->
                     IF user = NoUser THEN Unauthorized
                     ELSE IF user.role = "student" /\ user.student_id # ParseInt(h.req.id)
                     THEN Forbidden
                     ELSE NoRes
              [] OTHER -> IF ~IsTeacher(user) THEN Forbidden ELSE NoRes
        proceed ==
            CASE h.req.op = "detail" -> "student"
              [] h.req.op = "stats"  -> "count"
              [] OTHER               -> "insert"
    IN  /\ h.pc = "session"
        /\ MayRun(c)
        /\ Ran(c, [h EXCEPT !.user = user, !.res = refusal,
                            !.pc = IF refusal = NoRes THEN proceed ELSE "respond"])
        /\ UNCHANGED <<tables, cookie, loggedInAs, req, res, snapshot, clientVars>>

ReadStudent(c) ==
    LET h == handlers[c]
    IN  /\ h.pc = "student"
        /\ MayRun(c)
        /\ Ran(c, [h EXCEPT !.res.student = StudentById(h.req.id), !.pc = "attendance"])
        /\ UNCHANGED <<tables, cookie, loggedInAs, req, res, snapshot, clientVars>>

ReadAttendance(c) ==
    LET h == handlers[c]
    IN  /\ h.pc = "attendance"
        /\ MayRun(c)
        /\ Ran(c, [h EXCEPT !.res.attendance = RowsOfStudent(attendance, h.req.id),
                            !.pc = "grades"])
        /\ UNCHANGED <<tables, cookie, loggedInAs, req, res, snapshot, clientVars>>

ReadGrades(c) ==
    LET h == handlers[c]
    IN  /\ h.pc = "grades"
        /\ MayRun(c)
        /\ Ran(c, [h EXCEPT !.res.grades = RowsOfStudent(grades, h.req.id),
                            !.pc = "behavior"])
        /\ UNCHANGED <<tables, cookie, loggedInAs, req, res, snapshot, clientVars>>

ReadBehavior(c) ==
    LET h == handlers[c]
    IN  /\ h.pc = "behavior"
        /\ MayRun(c)
        /\ Ran(c, [h EXCEPT !.res.behavior = RowsOfStudent(behavior, h.req.id),
                            !.res.status = 200, !.res.body = "detail", !.pc = "respond"])
        /\ UNCHANGED <<tables, cookie, loggedInAs, req, res, snapshot, clientVars>>

CountStudents(c) ==
    LET h == handlers[c]
    IN  /\ h.pc = "count"
        /\ MayRun(c)
        /\ Ran(c, [h EXCEPT !.res.totalStudents = Len(students), !.pc = "group"])
        /\ UNCHANGED <<tables, cookie, loggedInAs, req, res, snapshot, clientVars>>

GroupAttendance(c) ==
    LET h == handlers[c]
    IN  /\ h.pc = "group"
        /\ MayRun(c)
        /\ Ran(c, [h EXCEPT !.res.attendanceToday = AttendanceToday(h.req.today),
                            !.res.status = 200, !.res.body = "stats", !.pc = "respond"])
        /\ UNCHANGED <<tables, cookie, loggedInAs, req, res, snapshot, clientVars>>

Insert(c) ==
    LET h == handlers[c]
        r == h.req
        attendanceRow == [id |-> Len(attendance) + 1, student_id |-> r.student_id,
                          date |-> r.date, status |-> r.status]
        gradeRow == [id |-> Len(grades) + 1, student_id |-> r.student_id,
                     subject |-> r.subject, score |-> r.score, date |-> r.date]
    IN  /\ h.pc = "insert"
        /\ MayRun(c)
        /\ IF r.date = NoText \/ ~ForeignKeyOk(r.student_id)
           THEN /\ Ran(c, [h EXCEPT !.res = InternalError, !.pc = "respond"])
                /\ UNCHANGED <<attendance, grades>>
           ELSE /\ Ran(c, [h EXCEPT !.res = Success, !.pc = "respond"])
                /\ IF r.op = "attendance"
                   THEN attendance' = Append(attendance, attendanceRow) /\ UNCHANGED grades
                   ELSE grades' = Append(grades, gradeRow) /\ UNCHANGED attendance
        /\ UNCHANGED <<users, students, behavior, cookie, loggedInAs, req, res, snapshot, clientVars>>

Respond(c) ==
    LET h == handlers[c]
    IN  /\ h.pc = "respond"
        /\ MayRun(c)
        /\ req' = h.req
        /\ res' = h.res
        /\ snapshot' = h.snap
        /\ handlers' = [handlers EXCEPT ![c] = Idle]
        /\ thread' = NoClient
        /\ UNCHANGED <<tables, cookie, loggedInAs, clientVars>>

NextLoop ==
    \/ \E c \in Clients, r \in LoopRequests, ck \in LoopCookies : Receive(c, r, ck)
    \/ \E c \in Clients : Start(c)
    \/ \E c \in Clients : ResolveSession(c)
    \/ \E c \in Clients : ReadStudent(c)
    \/ \E c \in Clients : ReadAttendance(c)
    \/ \E c \in Clients : ReadGrades(c)
    \/ \E c \in Clients : ReadBehavior(c)
    \/ \E c \in Clients : CountStudents(c)
    \/ \E c \in Clients : GroupAttendance(c)
    \/ \E c \in Clients : Insert(c)
    \/ \E c \in Clients : Respond(c)

SpecLoop == Init /\ [][NextLoop]_vars

(***************************************************************************)
(* The browser client (src/src/App.tsx)                                    *)
(*                                                                         *)
(* The App component's state, the clicks its rendering offers, and its     *)
(* fetches.  A fetch carries the cookie the browser holds when it is sent; *)
(* Arrive is the server's response reaching the browser (Set-Cookie takes  *)
(* effect there); Deliver runs the code after the await, for any fetch    *)
(* whose responses have arrived, in any order.  The [user] effect runs     *)
(* with the continuation that called setUser.                              *)
(***************************************************************************)
MaxInFlight == 2

ClientLogins ==
    { [username |-> "guru",  password |-> "guru123"],
      [username |-> "ahmad", password |-> "siswa123"],
      [username |-> "guru",  password |-> "salah"] }

Remove(seq, i) == [j \in 1..(Len(seq) - 1) |-> IF j < i THEN seq[j] ELSE seq[j + 1]]

Ok(r) == r.status = 200

\* The body of a 200 record response as the component keeps it.
DetailOf(r) ==
    [loaded |-> TRUE, id |-> r.student.id, name |-> r.student.name, class |-> r.student.class,
     attendance |-> r.attendance, grades |-> r.grades, behavior |-> r.behavior]

StatsOf(r) ==
    [loaded |-> TRUE, totalStudents |-> r.totalStudents, attendanceToday |-> r.attendanceToday]

\* fetchStudentDetail(id) up to its await.
DetailFetch(id, origin) == [Fetch("detail", cookie) EXCEPT !.id = id, !.origin = origin]

\* The [user] effect after setUser(u): the fetches it starts.
EffectFetches(u) ==
    IF u.role = "teacher" THEN <<Fetch("teacherData", cookie)>>
    ELSE IF u.role = "student" /\ u.student_id # NULL
    THEN <<[Fetch("detail", cookie) EXCEPT !.id = u.student_id, !.origin = "effect"]>>
    ELSE <<>>

\* The component after setUser(u) and the [user] effect; loading as the
\* continuation left it.
AfterSetUser(a, u) ==
    [a EXCEPT !.user = u,
              !.loading = IF u.role = "teacher" THEN TRUE ELSE @,
              !.activeTab = IF u.role = "student" /\ u.student_id # NULL
                            THEN "my-profile" ELSE @]

\* What the rendering shows.
LoginShown == ~app.loading /\ app.user = NoPublicUser
MainShown == ~app.loading /\ app.user # NoPublicUser
ListShown ==
    /\ MainShown
    /\ app.user.role = "teacher"
    /\ app.activeTab \in {"dashboard", "students"}
    /\ app.selectedStudentId = NULL
DetailShown ==
    /\ MainShown
    /\ app.selectedStudentId # NULL \/ (app.activeTab = "my-profile" /\ app.user.role = "student")
    /\ app.studentDetail.loaded

\* The page is loaded again: the component is mounted anew, checkAuth starts,
\* and the continuations of the old page never run.
Mount ==
    /\ app' = Mounted
    /\ inflight' = <<Fetch("me", cookie)>>
    /\ detailOrigin' = "none"
    /\ UNCHANGED <<tables, cookie, loggedInAs, req, res, loopVars>>

handleLogin(username, password) ==
    /\ LoginShown
    /\ Len(inflight) < MaxInFlight
    /\ inflight' = Append(inflight, [Fetch("login", cookie) EXCEPT !.username = username,
                                                                   !.password = password])
    /\ UNCHANGED <<tables, cookie, loggedInAs, req, res, loopVars, app, detailOrigin>>

handleLogout ==
    /\ MainShown
    /\ Len(inflight) < MaxInFlight
    /\ inflight' = Append(inflight, Fetch("logout", cookie))
    /\ UNCHANGED <<tables, cookie, loggedInAs, req, res, loopVars, app, detailOrigin>>

handleStudentClick(id) ==
    /\ ListShown
    /\ \E k \in 1..Len(app.students) :
          /\ app.students[k].id = id
          /\ app.activeTab = "dashboard" => k <= 5
    /\ Len(inflight) < MaxInFlight
    /\ app' = [app EXCEPT !.selectedStudentId = id]
    /\ inflight' = Append(inflight, DetailFetch(id, "click"))
    /\ UNCHANGED <<tables, cookie, loggedInAs, req, res, loopVars, detailOrigin>>

ClickDashboard ==
    /\ MainShown
    /\ app.user.role = "teacher"
    /\ app' = [app EXCEPT !.activeTab = "dashboard", !.selectedStudentId = NULL]
    /\ UNCHANGED <<tables, cookie, loggedInAs, req, res, loopVars, inflight, detailOrigin>>

ClickStudents ==
    /\ MainShown
    /\ app.user.role = "teacher"
    /\ app' = [app EXCEPT !.activeTab = "students"]
    /\ UNCHANGED <<tables, cookie, loggedInAs, req, res, loopVars, inflight, detailOrigin>>

ClickMyProfile ==
    /\ MainShown
    /\ app.user.role # "teacher"
    /\ app' = [app EXCEPT !.activeTab = "my-profile"]
    /\ UNCHANGED <<tables, cookie, loggedInAs, req, res, loopVars, inflight, detailOrigin>>

ClickBack ==
    /\ DetailShown
    /\ app.user.role = "teacher"
    /\ app' = [app EXCEPT !.selectedStudentId = NULL]
    /\ UNCHANGED <<tables, cookie, loggedInAs, req, res, loopVars, inflight, detailOrigin>>

\* The server's response to part p of fetch f.
ResponseTo(f, p, today) ==
    LET caller == getSessionUser(f.cookie)
        found  == UserByCredentials(f.username, f.password)
    IN  CASE p = "me"       -> MeResponse(caller)
          [] p = "login"    ->
                 IF found # NoUser
                 THEN [NoRes EXCEPT !.status = 200, !.body = "login", !.success = "true",
                                    !.user = PublicUser(found),
                                    !.setCookie = "set", !.cookieValue = NumToStr(found.id)]
                 ELSE [NoRes EXCEPT !.status = 401, !.body = "login", !.success = "false",
                                    !.message = "Username atau password salah"]
          [] p = "logout"   -> [Success EXCEPT !.setCookie = "clear"]
          [] p = "detail"   -> StudentDetailResponse(caller, NumToStr(f.id))
          [] p = "students" ->
                 IF ~IsTeacher(caller) THEN Forbidden
                 ELSE [NoRes EXCEPT !.status = 200, !.body = "students", !.students = students]
          [] p = "stats"    -> StatsResponse(caller, today)

\* The server has handled part p of the i-th fetch and the response has
\* reached the browser.
Arrive(i, p, today) ==
    LET f == inflight[i]
        r == ResponseTo(f, p, today)
    IN  /\ i \in 1..Len(inflight)
        /\ p \in f.awaiting
        /\ req' = [NoReq EXCEPT !.op = p]
        /\ res' = r
        /\ inflight' = [inflight EXCEPT ![i] =
               IF p = "stats" THEN [f EXCEPT !.awaiting = @ \ {p}, !.statsRes = r]
                              ELSE [f EXCEPT !.awaiting = @ \ {p}, !.res = r]]
        /\ cookie' = CASE r.setCookie = "set"   -> r.cookieValue
                       [] r.setCookie = "clear" -> <<>>
                       [] OTHER                 -> cookie
        /\ loggedInAs' = CASE r.setCookie = "set"   -> r.user.id
                           [] r.setCookie = "clear" -> NULL
                           [] OTHER                 -> loggedInAs
        /\ UNCHANGED <<tables, loopVars, app, detailOrigin>>

\* checkAuth after its await.
DeliverMe(i) ==
    LET f == inflight[i]
    IN  /\ i \in 1..Len(inflight)
        /\ f.kind = "me" /\ f.awaiting = {}
        /\ IF Ok(f.res)
           THEN /\ app' = AfterSetUser([app EXCEPT !.loading = FALSE], f.res.user)
                /\ inflight' = Remove(inflight, i) \o EffectFetches(f.res.user)
           ELSE /\ app' = [app EXCEPT !.loading = FALSE]
                /\ inflight' = Remove(inflight, i)
        /\ UNCHANGED <<tables, cookie, loggedInAs, req, res, loopVars, detailOrigin>>

\* handleLogin after its await.
DeliverLogin(i) ==
    LET f == inflight[i]
    IN  /\ i \in 1..Len(inflight)
        /\ f.kind = "login" /\ f.awaiting = {}
        /\ IF f.res.success = "true"
           THEN /\ app' = AfterSetUser(app, f.res.user)
                /\ inflight' = Remove(inflight, i) \o EffectFetches(f.res.user)
           ELSE /\ inflight' = Remove(inflight, i)
                /\ UNCHANGED app
        /\ UNCHANGED <<tables, cookie, loggedInAs, req, res, loopVars, detailOrigin>>

\* handleLogout after its await.
DeliverLogout(i) ==
    LET f == inflight[i]
    IN  /\ i \in 1..Len(inflight)
        /\ f.kind = "logout" /\ f.awaiting = {}
        /\ app' = [app EXCEPT !.user = NoPublicUser, !.studentDetail = NoDetail,
                              !.students = <<>>, !.stats = NoStats]
        /\ inflight' = Remove(inflight, i)
        /\ UNCHANGED <<tables, cookie, loggedInAs, req, res, loopVars, detailOrigin>>

\* fetchTeacherData after its await of both responses.
DeliverTeacherData(i) ==
    LET f == inflight[i]
    IN  /\ i \in 1..Len(inflight)
        /\ f.kind = "teacherData" /\ f.awaiting = {}
        /\ app' = [app EXCEPT !.students = IF Ok(f.res) THEN f.res.students ELSE @,
                              !.stats = IF Ok(f.statsRes) THEN StatsOf(f.statsRes) ELSE @,
                              !.loading = FALSE]
        /\ inflight' = Remove(inflight, i)
        /\ UNCHANGED <<tables, cookie, loggedInAs, req, res, loopVars, detailOrigin>>

\* fetchStudentDetail after its await.
DeliverDetail(i) ==
    LET f == inflight[i]
    IN  /\ i \in 1..Len(inflight)
        /\ f.kind = "detail" /\ f.awaiting = {}
        /\ IF Ok(f.res)
           THEN /\ app' = [app EXCEPT !.studentDetail = DetailOf(f.res)]
                /\ detailOrigin' = f.origin
           ELSE UNCHANGED <<app, detailOrigin>>
        /\ inflight' = Remove(inflight, i)
        /\ UNCHANGED <<tables, cookie, loggedInAs, req, res, loopVars>>

NextClient ==
    \/ Mount
    \/ \E l \in ClientLogins : handleLogin(l.username, l.password)
    \/ handleLogout
    \/ \E id \in 1..9 : handleStudentClick(id)
    \/ ClickDashboard
    \/ ClickStudents
    \/ ClickMyProfile
    \/ ClickBack
    \/ \E i \in 1..MaxInFlight, p \in {"me", "login", "logout", "detail", "students", "stats"},
          today \in Days : Arrive(i, p, today)
    \/ \E i \in 1..MaxInFlight : DeliverMe(i)
    \/ \E i \in 1..MaxInFlight : DeliverLogin(i)
    \/ \E i \in 1..MaxInFlight : DeliverLogout(i)
    \/ \E i \in 1..MaxInFlight : DeliverTeacherData(i)
    \/ \E i \in 1..MaxInFlight : DeliverDetail(i)

SpecClient == Init /\ [][NextClient]_vars

(***************************************************************************)
(* Properties                                                              *)
(***************************************************************************)
\* The user on whose behalf the browser acts: the user of its last successful
\* login, nobody after a logout.
Caller ==
    IF \E i \in 1..Len(users) : users[i].id = loggedInAs
    THEN users[CHOOSE i \in 1..Len(users) : users[i].id = loggedInAs]
    ELSE NoUser

Anonymous == loggedInAs = NULL

NoRecordData(r) ==
    /\ r.student = NoStudent
    /\ r.attendance = <<>>
    /\ r.grades = <<>>
    /\ r.behavior = <<>>

\* C1: a GET /api/students/:id by a student-role caller whose requested id is a
\* number other than the caller's student_id is answered 403 and carries no
\* student row and no attendance, grade or behavior row.
C1_StudentOtherIdForbidden ==
    (/\ req.op = "detail"
     /\ Caller.role = "student"
     /\ ToNumeric(req.id) # NotNumeric
     /\ ToNumeric(req.id) # Caller.student_id)
    => (res.status = 403 /\ NoRecordData(res))

CredentialsOf(i) ==
    users[i].username = req.username /\ users[i].password = req.password

\* C2: a login with the username and password of a user u succeeds with u, and
\* as long as no logout or other login follows, GET /api/me returns exactly
\* u's id, username, role and student_id.
C2_LoginThenMe ==
    /\ req.op = "login" =>
          \A i \in 1..Len(users) :
              CredentialsOf(i) =>
                  /\ res.status = 200
                  /\ res.success = "true"
                  /\ res.user = PublicUser(users[i])
                  /\ res.setCookie = "set"
                  /\ loggedInAs = users[i].id
    /\ (req.op = "me" /\ ~Anonymous) =>
          /\ res.status = 200
          /\ res.user = PublicUser(Caller)
          /\ res.user.id = loggedInAs

C2_Witness ==
    /\ req.op = "me"
    /\ loggedInAs = 2
    /\ res.status = 200
    /\ res.user.username = "ahmad"
    /\ res.user.student_id = 1

\* C3: a login whose (username, password) matches no user is answered 401 with
\* success:false, sets no cookie, and leaves an anonymous client anonymous
\* (GET /api/me would yield 401).
C3_BadLoginNoSession ==
    (req.op = "login" /\ ~(\E i \in 1..Len(users) : CredentialsOf(i))) =>
        /\ res.status = 401
        /\ res.success = "false"
        /\ res.user = NoPublicUser
        /\ res.setCookie = "none"
        /\ Anonymous => (cookie = <<>> /\ MeResponse(getSessionUser(cookie)).status = 401)

C3_Witness ==
    /\ req.op = "login"
    /\ req.username = "guru"
    /\ req.password = "salah"
    /\ res.status = 401
    /\ Anonymous

InsertOps == {"attendance", "grades", "behavior"}

\* C4: the three POST routes insert a row only for a teacher; a request of an
\* anonymous or student-role caller is rejected and leaves the attendance,
\* grades and behavior tables unchanged.
C4_OnlyTeacherInserts ==
    [][ /\ (<<attendance, grades, behavior>>' # <<attendance, grades, behavior>>) =>
              (Caller.role = "teacher" /\ req'.op \in InsertOps /\ res'.status = 200)
        /\ (req'.op \in InsertOps /\ Caller.role # "teacher") =>
              /\ res'.status \in {401, 403}
              /\ res'.success # "true"
              /\ <<attendance, grades, behavior>>' = <<attendance, grades, behavior>>
      ]_vars

C4_Witness ==
    /\ req.op = "grades"
    /\ loggedInAs = 2
    /\ res.status = 403
    /\ grades = <<>>
    /\ attendance # <<>>

\* C5: GET /api/students and GET /api/stats give the student list, the total
\* student count and the attendance counts to a teacher only; an anonymous or
\* student-role caller is rejected without any of them.
C5_ListAndStatsTeacherOnly ==
    (req.op \in {"students", "stats"} /\ Caller.role # "teacher") =>
        /\ res.status \in {401, 403}
        /\ res.body = "message"
        /\ res.students = <<>>
        /\ res.totalStudents = NoRes.totalStudents
        /\ res.attendanceToday = <<>>

C5_Witness ==
    /\ req.op = "stats"
    /\ loggedInAs = 3
    /\ res.status = 403
    /\ \E i \in 1..Len(attendance) : attendance[i].date = req.today

GatedOps == {"students", "detail", "attendance", "grades", "behavior", "stats"}

\* C6: on every gated route the rejection of a caller without a session is
\* Unauthenticated (401) and is never the Forbidden rejection that a caller
\* with a session and an insufficient role gets.
C6_UnauthenticatedDistinct ==
    (req.op \in GatedOps /\ Anonymous) =>
        (res.status = 401 /\ res # Forbidden)

\* C7: the session goes anonymous -> authenticated only by a valid login, and
\* back to anonymous by logout: after a logout (also from an anonymous
\* client, where it succeeds too) the cookie is gone and GET /api/me yields
\* 401 until the next successful login.
C7_SessionLifecycle ==
    /\ (getSessionUser(cookie) # NoUser) <=> ~Anonymous
    /\ (req.op = "login" /\ res.success = "true") => \E i \in 1..Len(users) : CredentialsOf(i)
    /\ req.op = "logout" =>
          (res.status = 200 /\ res.success = "true" /\ cookie = <<>> /\ Anonymous)
    /\ (req.op = "me" /\ Anonymous) => (res.status = 401 /\ res.user = NoPublicUser)

\* A teacher has inserted a row, so a login came before the 401 of /api/me.
C7_Witness ==
    /\ req.op = "me"
    /\ res.status = 401
    /\ TotalRows > 0
    /\ cookie = <<>>

RowSet(table) == {table[i] : i \in 1..Len(table)}

\* the sequence holds exactly the rows of the table that belong to student n
ExactlyRowsOf(result, table, n) ==
    /\ Len(result) = Cardinality(RowSet(result))
    /\ RowSet(result) = {row \in RowSet(table) : row.student_id = n}

SortedByDateDesc(result) ==
    \A j \in 1..(Len(result) - 1) : ~TextLess(result[j].date, result[j + 1].date)

\* C8: for every student id n, each of the three sequences of a successful
\* GET /api/students/n holds exactly the rows of its table whose student_id
\* is n, ordered by date descending.
C8_DetailRowsExactAndSorted ==
    \A n \in 1..9 :
        (req.op = "detail" /\ req.id = NumToStr(n) /\ res.status = 200) =>
            /\ ExactlyRowsOf(res.attendance, attendance, n)
            /\ ExactlyRowsOf(res.grades, grades, n)
            /\ ExactlyRowsOf(res.behavior, behavior, n)
            /\ SortedByDateDesc(res.attendance)
            /\ SortedByDateDesc(res.grades)
            /\ SortedByDateDesc(res.behavior)

\* two rows of one student, returned in the reverse of their insertion order,
\* while the table holds a row of another student or table as well
C8_Witness ==
    /\ req.op = "detail"
    /\ res.status = 200
    /\ Len(res.grades) = 2
    /\ res.grades[1].id > res.grades[2].id
    /\ TextLess(res.grades[2].date, res.grades[1].date)

Teacher == users[CHOOSE i \in 1..Len(users) : users[i].role = "teacher"]

IsPrefix(old, new) ==
    Len(old) <= Len(new) /\ \A i \in 1..Len(old) : new[i] = old[i]

\* C9: when a teacher's POST /api/attendance for student s, date d, status st
\* succeeds, the attendance sequence of GET /api/students/s has one element
\* more than before, contains a row (s, d, st) and is sorted by date
\* descending; and no later request removes or changes an attendance row.
C9_InsertedAttendanceIsFetched ==
    [][ /\ IsPrefix(attendance, attendance')
        /\ \A n \in 1..9 :
              (req'.op = "attendance" /\ res'.status = 200 /\ req'.student_id = n) =>
                  LET s == NumToStr(n)
                      before == StudentDetailResponse(Teacher, s).attendance
                      after == StudentDetailResponse(Teacher, s)'.attendance
                  IN  /\ Len(after) = Len(before) + 1
                      /\ \E j \in 1..Len(after) :
                            /\ after[j].student_id = n
                            /\ after[j].date = req'.date
                            /\ after[j].status = req'.status
                      /\ SortedByDateDesc(after)
      ]_vars

\* the new row is dated after an older row of the same student
C9_Witness ==
    /\ req.op = "attendance"
    /\ res.status = 200
    /\ Len(attendance) = 2
    /\ attendance[1].student_id = attendance[2].student_id
    /\ TextLess(attendance[1].date, attendance[2].date)

\* C10: GET /api/students/:id by a teacher with a number that is the id of no
\* student is answered 404, not with a success response.
C10_UnknownIdNotFound ==
    (/\ req.op = "detail"
     /\ Caller.role = "teacher"
     /\ ToNumeric(req.id) # NotNumeric
     /\ ToNumeric(req.id) \notin {students[i].id : i \in 1..Len(students)})
    => res.status = 404

AllStatuses ==
    {StatusOrder[i] : i \in 1..Len(StatusOrder)} \cup {attendance[i].status : i \in 1..Len(attendance)}

RowsOn(today, st) ==
    {i \in 1..Len(attendance) : attendance[i].date = today /\ attendance[i].status = st}

PairsOf(r, st) ==
    {j \in 1..Len(r.attendanceToday) : r.attendanceToday[j].status = st}

\* the count a stats response gives for a status: an absent pair means zero
CountIn(r, st) ==
    IF PairsOf(r, st) = {} THEN 0
    ELSE r.attendanceToday[CHOOSE j \in PairsOf(r, st) : TRUE].count

StatsExact(r, today) ==
    /\ r.totalStudents = Len(students)
    /\ \A j \in 1..Len(r.attendanceToday) : r.attendanceToday[j].status \in AllStatuses
    /\ \A st \in AllStatuses :
          IF RowsOn(today, st) = {}
          THEN PairsOf(r, st) = {}
          ELSE /\ Cardinality(PairsOf(r, st)) = 1
               /\ CountIn(r, st) = Cardinality(RowsOn(today, st))

\* C11: GET /api/stats by a teacher gives the number of student rows and, for
\* the current day, one {status, count} pair per status that has rows, with
\* the number of those rows, and no pair for a status without rows; an
\* inserted attendance row dated today raises the count of its status by one
\* and changes nothing else, a row of another date changes nothing.
C11_StatsCountTodayByStatus ==
    [][ /\ (req'.op = "stats" /\ res'.status = 200) => StatsExact(res, req.today)'
        /\ \A today \in Days :
              (req'.op = "attendance" /\ res'.status = 200) =>
                  LET before == StatsResponse(Teacher, today)
                      after == StatsResponse(Teacher, today)'
                  IN  /\ after.totalStudents = before.totalStudents
                      /\ \A st \in AllStatuses :
                            CountIn(after, st) =
                                CountIn(before, st) +
                                (IF req'.date = today /\ req'.status = st THEN 1 ELSE 0)
                      /\ req'.date # today => after = before
      ]_vars

\* two attendance rows, one of them dated today
C11_Witness ==
    /\ req.op = "stats"
    /\ res.status = 200
    /\ res.totalStudents = 4
    /\ res.attendanceToday = <<[status |-> "present", count |-> 1]>>
    /\ \E i \in 1..Len(attendance) : attendance[i].date # req.today

StudentIds == {students[i].id : i \in 1..Len(students)}

\* C12: every attendance, grades and behavior row has a student_id that is
\* the id of a row of the students table, whatever the request bodies were.
C12_RowsReferenceStudents ==
    /\ \A i \in 1..Len(attendance) : attendance[i].student_id \in StudentIds
    /\ \A i \in 1..Len(grades) : grades[i].student_id \in StudentIds
    /\ \A i \in 1..Len(behavior) : behavior[i].student_id \in StudentIds

\* C13: a teacher's POST /api/attendance, /api/grades or /api/behavior with a
\* student id of no student fails with a NotFound outcome (404); with the id
\* of a student it succeeds.
C13_UnknownStudentNotFound ==
    (req.op \in InsertOps /\ Caller.role = "teacher" /\ req.student_id # NULL
        /\ req.date # NoText) =>
        IF req.student_id \in StudentIds
        THEN res.status = 200 /\ res = Success
        ELSE res.status = 404

StudentRow(n) == students[CHOOSE i \in 1..Len(students) : students[i].id = n]

MayFetch(n) ==
    \/ Caller.role = "teacher"
    \/ Caller.role = "student" /\ Caller.student_id = n

\* C14: GET /api/students/n for an existing student n is answered 200 with
\* n's merged record whenever the caller is a teacher or the student-role
\* user bound to n; ahmad (bound to student 1) gets student 1's record for
\* id 1 and 403 for id 2.
C14_TeacherOrOwnerGetsRecord ==
    /\ \A n \in StudentIds :
          (req.op = "detail" /\ req.id = NumToStr(n) /\ MayFetch(n)) =>
              /\ res.status = 200
              /\ res.body = "detail"
              /\ res.student = StudentRow(n)
              /\ RowSet(res.attendance) = {row \in RowSet(attendance) : row.student_id = n}
              /\ RowSet(res.grades) = {row \in RowSet(grades) : row.student_id = n}
              /\ RowSet(res.behavior) = {row \in RowSet(behavior) : row.student_id = n}
    /\ (req.op = "detail" /\ Caller.username = "ahmad" /\ req.id = <<"2">>) =>
          res.status = 403

C14_Witness ==
    /\ req.op = "detail"
    /\ Caller.username = "ahmad"
    /\ req.id = <<"1">>
    /\ res.status = 200
    /\ res.student.name = "Ahmad Fauzi"
    /\ Len(res.attendance) = 1
    /\ Len(attendance) = 2

\* the user a cookie value stands for: the user whose id it spells
UserOfToken(ck) ==
    IF \E i \in 1..Len(users) : ck = NumToStr(users[i].id)
    THEN users[CHOOSE i \in 1..Len(users) : ck = NumToStr(users[i].id)]
    ELSE NoUser

ResolvingOps == {"me", "students", "detail", "stats"}

TokenIsTeacher == UserOfToken(cookie).role = "teacher"

\* C18: the identity the server acts on is determined by the presented cookie
\* value and the users table alone, whatever logins and logouts came before:
\* a cookie spelling a user's id is that user, also for a client that never
\* logged in or has logged out.
C18_IdentityFromCookieOnly ==
    /\ req.op = "me" => res = MeResponse(UserOfToken(cookie))
    /\ req.op \in {"students", "stats"} => (res.status = 200 <=> TokenIsTeacher)
    /\ req.op = "attendance" => (res.status \in {200, 500} <=> TokenIsTeacher)
    /\ req.op = "detail" => (res.status = 401 <=> UserOfToken(cookie) = NoUser)
    /\ \A i \in 1..Len(users) :
          (req.op = "me" /\ cookie = NumToStr(users[i].id)) =>
              (res.status = 200 /\ res.user = PublicUser(users[i]))

\* a client that is not logged in is answered as the teacher
C18_Witness ==
    /\ req.op = "me"
    /\ loggedInAs = NULL
    /\ res.status = 200
    /\ res.user.username = "guru"

RowIds(table) == {table[i].id : i \in 1..Len(table)}

AppendsOne(old, new) ==
    /\ Len(new) = Len(old) + 1
    /\ IsPrefix(old, new)
    /\ new[Len(new)].id \notin RowIds(old)

\* C19: a successful POST /api/attendance, /api/grades or /api/behavior adds
\* exactly one row with a new id to its own table and changes no other
\* table; no request modifies or removes a row; every other request leaves
\* the five tables unchanged.
C19_InsertFrame ==
    [][ /\ users' = users
        /\ students' = students
        /\ IsPrefix(attendance, attendance')
        /\ IsPrefix(grades, grades')
        /\ IsPrefix(behavior, behavior')
        /\ (req'.op = "attendance" /\ res'.status = 200) =>
              (AppendsOne(attendance, attendance') /\ UNCHANGED <<grades, behavior>>)
        /\ (req'.op = "grades" /\ res'.status = 200) =>
              (AppendsOne(grades, grades') /\ UNCHANGED <<attendance, behavior>>)
        /\ (req'.op = "behavior" /\ res'.status = 200) =>
              (AppendsOne(behavior, behavior') /\ UNCHANGED <<attendance, grades>>)
        /\ req'.op \notin InsertOps => UNCHANGED tables
      ]_vars

C19_Witness ==
    /\ req.op = "grades"
    /\ res.status = 200
    /\ Len(grades) = 2
    /\ grades[2].id # grades[1].id

\* The record tables of the store as they are now.
RecordsNow == [attendance |-> attendance, grades |-> grades, behavior |-> behavior]

\* The rows of attendance table t dated today, grouped by status.
GroupedOn(t, today) ==
    {[status |-> st, count |-> Cardinality({i \in 1..Len(t) : t[i].date = today /\ t[i].status = st})] :
        st \in {t[i].status : i \in {j \in 1..Len(t) : t[j].date = today}}}

\* The handlers that have executed a statement and not yet responded.
Executing == {c \in Clients : handlers[c].pc \notin {"idle", "received"}}

\* C17: with concurrent clients, a started handler runs to its response
\* before another handler executes a statement; every statement of a handler
\* sees the store as it was when the handler started, so the student row and
\* the three sequences of a GET /api/students/:id response, and the
\* totalStudents and attendanceToday of a GET /api/stats response, are those
\* of that one store state.
C17_HandlersRunToCompletion ==
    /\ Cardinality(Executing) <= 1
    /\ \A c \in Executing :
          /\ thread = c
          /\ handlers[c].req.op \in {"detail", "stats"} =>
                [k \in {"attendance", "grades", "behavior"} |-> handlers[c].snap[k]] = RecordsNow
    /\ (req.op = "detail" /\ res.status = 200) =>
          /\ res.student = StudentById(req.id)
          /\ res.attendance = RowsOfStudent(snapshot.attendance, req.id)
          /\ res.grades = RowsOfStudent(snapshot.grades, req.id)
          /\ res.behavior = RowsOfStudent(snapshot.behavior, req.id)
    /\ (req.op = "stats" /\ res.status = 200) =>
          /\ res.totalStudents = Len(students)
          /\ {res.attendanceToday[j] : j \in 1..Len(res.attendanceToday)} =
                GroupedOn(snapshot.attendance, req.today)
          /\ Len(res.attendanceToday) = Cardinality(GroupedOn(snapshot.attendance, req.today))

\* A record was answered from the store without the row that a POST, received
\* while the record's handler was running, inserted afterwards.
C17_Witness ==
    /\ req.op = "detail" /\ res.status = 200
    /\ snapshot.overlapped
    /\ res.attendance = <<>>
    /\ RowsOfStudent(attendance, req.id) # <<>>
    /\ \E c \in Clients : /\ handlers[c].req.op = "attendance"
                          /\ handlers[c].pc = "respond"
                          /\ handlers[c].res = Success

\* The component's fetches started by a click on a student and not yet delivered.
ClickFetches == {i \in 1..Len(inflight) : inflight[i].kind = "detail" /\ inflight[i].origin = "click"}

\* C20: a teacher has clicked students and every response of those clicks has
\* been delivered; the record displayed is the one of the student selected last.
C20_LastSelectedIsDisplayed ==
    ( /\ DetailShown
      /\ app.user.role = "teacher"
      /\ app.selectedStudentId # NULL
      /\ detailOrigin = "click"
      /\ ClickFetches = {} ) =>
        app.studentDetail.id = app.selectedStudentId

\* The component holds no student data.
HoldsNoStudentData ==
    /\ app.studentDetail = NoDetail
    /\ app.students = <<>>
    /\ app.stats = NoStats

\* C21: while nobody is logged in at the client (user = null: from the
\* completion of handleLogout, which is the only code that sets user to null
\* after a login, until the next setUser of a successful login or checkAuth)
\* the component holds no student data, whatever responses of earlier fetches
\* are delivered in the meantime.
C21_NoStudentDataAfterLogout ==
    app.user = NoPublicUser => HoldsNoStudentData

====
